---- MODULE Spec2Model ----
(***************************************************************************)
(* The in-memory lexical retrieval engines of buddy_agent/sub_agents/      *)
(* rag_retriever: BetterSearchEngine (better_search.py),                   *)
(* UltraSafeSearchEngine (ultra_safe_search.py) and the chunker of         *)
(* SimpleVectorSearchEngine (simple_vector_search.py).                     *)
(*                                                                         *)
(* A text is a sequence of characters (one-character strings).  The        *)
(* program's size constants are scaled down so that TLC can enumerate the  *)
(* cases; every scaled constant keeps the relations of the source that     *)
(* decide the behaviour:                                                   *)
(*   0 < overlap < chunk_size                  (100 < 500, 150 < 800)      *)
(*   max_total_chunks is a multiple of max_chunks_per_document (200 = 4*50)*)
(*   max_total_chunks / max_chunks_per_document < max_documents (4 < 10)   *)
(*   max_chunks_to_process < max_total_chunks  (100 < 200)                 *)
(*   a document of max_document_size has more windows than                 *)
(*   max_chunks_per_document in UltraSafeSearchEngine (77 > 50) and fewer  *)
(*   than the chunk limit in BetterSearchEngine (250 < 1001)               *)
(* The result ceilings of search_similar (5 and 3) are kept as they are.   *)
(* Scores are exact rationals <<numerator, denominator>>; the source       *)
(* computes them in binary floating point.                                 *)
(***************************************************************************)
EXTENDS Integers, Sequences, FiniteSets, TLC

VARIABLES
    engine,               \* "better" or "ultra": the class the process instantiated
    hash_order,           \* the order in which this process lists a set of words
    documents,            \* self.documents: document_id -> record
    chunks,               \* self.chunks: the entries in insertion order
    inverted_index,       \* self.inverted_index: word -> set of chunk ids
    current_chunk_count,  \* UltraSafeSearchEngine.current_chunk_count
    current_word_count,   \* UltraSafeSearchEngine.current_word_count
    pc,                   \* "idle", "returned" (a call has returned) or "hung"
    call,                 \* the call made last and its arguments
    ret,                  \* the value it returned
    hist,                 \* what the add_document calls so far had in common
    loop,                 \* a run of chunk_document, one loop iteration at a time
    trial,                \* queries and chunk texts and the scores computed for them
    app                   \* app.py: the clock and the requests being handled

vars == <<engine, hash_order, documents, chunks, inverted_index, current_chunk_count,
          current_word_count, pc, call, ret, hist, loop, trial, app>>

collectionVars == <<documents, chunks, inverted_index, current_chunk_count,
                    current_word_count>>

engineVars == <<engine, hash_order, documents, chunks, inverted_index,
                current_chunk_count, current_word_count, pc, call, ret, hist>>

(***************************************************************************)
(* Characters and Python's string primitives.                              *)
(***************************************************************************)
Min(a, b) == IF a <= b THEN a ELSE b

Max(a, b) == IF a >= b THEN a ELSE b

\* str.isspace of one character
IsSpace(c) == c \in {" ", "\t", "\n", "\r"}

LowerLetters ==
    <<"a", "b", "c", "d", "e", "f", "g", "h", "i", "j", "k", "l", "m",
      "n", "o", "p", "q", "r", "s", "t", "u", "v", "w", "x", "y", "z">>

UpperLetters ==
    <<"A", "B", "C", "D", "E", "F", "G", "H", "I", "J", "K", "L", "M",
      "N", "O", "P", "Q", "R", "S", "T", "U", "V", "W", "X", "Y", "Z">>

Digits == {"0", "1", "2", "3", "4", "5", "6", "7", "8", "9"}

\* \w of the regular expression r'\b\w+\b' (ASCII texts)
IsWordChar(c) ==
    \/ \E i \in 1..Len(LowerLetters) : c = LowerLetters[i] \/ c = UpperLetters[i]
    \/ c \in Digits
    \/ c = "_"

\* str.lower of one character
LowerChar(c) ==
    IF \E i \in 1..Len(UpperLetters) : c = UpperLetters[i]
    THEN LowerLetters[CHOOSE i \in 1..Len(UpperLetters) : c = UpperLetters[i]]
    ELSE c

\* str.lower
Lower(s) == [i \in 1..Len(s) |-> LowerChar(s[i])]

\* Python's normalisation of a slice index: a negative index counts from the
\* end, and the result is clamped to 0..n
SliceIndex(i, n) == IF i < 0 THEN Max(n + i, 0) ELSE Min(i, n)

\* Python's s[start:end]; offsets are 0-based
Slice(s, start, end) ==
    LET lo == SliceIndex(start, Len(s))
        hi == SliceIndex(end, Len(s))
    IN  IF lo >= hi THEN <<>> ELSE [i \in 1..(hi - lo) |-> s[lo + i]]

\* s[:k] for k >= 0
Prefix(s, k) == Slice(s, 0, k)

\* str.strip(): leading and trailing whitespace removed
Strip(s) ==
    LET nonsp == {i \in 1..Len(s) : ~IsSpace(s[i])}
    IN  IF nonsp = {} THEN <<>>
        ELSE LET lo == CHOOSE i \in nonsp : \A j \in nonsp : i <= j
                 hi == CHOOSE i \in nonsp : \A j \in nonsp : i >= j
             IN  [i \in 1..(hi - lo + 1) |-> s[lo + i - 1]]

\* Python's `sub in s` for strings: sub occurs in s as a contiguous substring
Contains(s, sub) ==
    \E i \in 0..(Len(s) - Len(sub)) :
        \A j \in 1..Len(sub) : s[i + j] = sub[j]

(***************************************************************************)
(* chunk_document.  One iteration of the while loop is ChunkIter; the      *)
(* three variants differ in the loop condition and the chunk limit.        *)
(***************************************************************************)
\* scaled from 1000 (better_search.py:72): the loop breaks when chunk_id > it
BetterChunkLimit == 3

\* scaled from 50 (ultra_safe_search.py:47)
max_chunks_per_document == 3

\* the chunk descriptor appended at lines 58-65
ChunkDescriptor(chunk_text, start, end, chunk_id) ==
    [text |-> chunk_text, start_pos |-> start, end_pos |-> end,
     chunk_size |-> Len(chunk_text), chunk_index |-> chunk_id]

\* the condition of the while statement
LoopCondition(variant, text, st) ==
    /\ st.start < Len(text)
    /\ variant = "ultra" => st.chunk_id < max_chunks_per_document

\* the break statements at the end of the loop body
LoopBreaks(variant, text, start, chunk_id) ==
    \/ start >= Len(text)
    \/ variant = "better" /\ chunk_id > BetterChunkLimit

\* One evaluation of the loop condition and, when it holds, of the body.
\* st = [start, chunk_id, chunks, status], status "loop" before and "done"
\* once the loop is left.
ChunkIter(variant, text, chunk_size, overlap, st) ==
    IF ~LoopCondition(variant, text, st)
    THEN [st EXCEPT !.status = "done"]
    ELSE LET end        == Min(st.start + chunk_size, Len(text))
             chunk_text == Strip(Slice(text, st.start, end))
             emit       == chunk_text # <<>>
             chunks1    == IF emit
                           THEN Append(st.chunks,
                                   ChunkDescriptor(chunk_text, st.start, end, st.chunk_id))
                           ELSE st.chunks
             chunk_id1  == IF emit THEN st.chunk_id + 1 ELSE st.chunk_id
             start1     == end - overlap
         IN  [start    |-> start1,
              chunk_id |-> chunk_id1,
              chunks   |-> chunks1,
              status   |-> IF LoopBreaks(variant, text, start1, chunk_id1)
                           THEN "done" ELSE "loop"]

\* the state at the first evaluation of the loop condition (start = 0, chunk_id = 0)
LoopStart == [start |-> 0, chunk_id |-> 0, chunks |-> <<>>, status |-> "loop"]

\* The loop is deterministic in (start, chunk_id, chunks): an iteration that
\* leaves the three unchanged and does not leave the loop repeats forever.
Stuck(variant, text, chunk_size, overlap, st) ==
    /\ st.status = "loop"
    /\ ChunkIter(variant, text, chunk_size, overlap, st) = st

RECURSIVE RunLoop(_, _, _, _, _)
RunLoop(variant, text, chunk_size, overlap, st) ==
    IF st.status = "done" THEN [returns |-> TRUE, chunks |-> st.chunks]
    ELSE IF Stuck(variant, text, chunk_size, overlap, st)
         THEN [returns |-> FALSE, chunks |-> <<>>]
         ELSE RunLoop(variant, text, chunk_size, overlap,
                      ChunkIter(variant, text, chunk_size, overlap, st))

\* chunk_document as a function of its arguments: the chunks it returns, or
\* returns = FALSE when the call never returns.
chunk_document(variant, text, chunk_size, overlap) ==
    RunLoop(variant, text, chunk_size, overlap, LoopStart)

(***************************************************************************)
(* _preprocess_text: re.findall(r'\b\w+\b', text.lower()), and in          *)
(* UltraSafeSearchEngine the filter len(word) >= 3.                        *)
(***************************************************************************)
\* scaled from 3 (ultra_safe_search.py:119)
MinWordLen == 2

\* the maximal runs of word characters of s from offset i on; cur is the run read so far
RECURSIVE WordRuns(_, _, _)
WordRuns(s, i, cur) ==
    IF i > Len(s) THEN (IF cur = <<>> THEN <<>> ELSE <<cur>>)
    ELSE IF IsWordChar(s[i]) THEN WordRuns(s, i + 1, Append(cur, s[i]))
    ELSE (IF cur = <<>> THEN <<>> ELSE <<cur>>) \o WordRuns(s, i + 1, <<>>)

SelectLong(ws) == SelectSeq(ws, LAMBDA w : Len(w) >= MinWordLen)

\* the word list of a text
preprocess_text(variant, text) ==
    LET words == WordRuns(Lower(text), 1, <<>>)
    IN  IF variant = "ultra" THEN SelectLong(words) ELSE words

ToSet(seq) == {seq[i] : i \in 1..Len(seq)}

\* the token set search_similar builds from a text
TokenSet(variant, text) == ToSet(preprocess_text(variant, text))

(***************************************************************************)
(* The collection: documents (dict), chunks (dict, kept in insertion       *)
(* order), inverted_index (defaultdict(set)) and the two counters.         *)
(***************************************************************************)
\* defaults of chunk_document (scaled from 500/100 and 800/150)
chunk_size_default == 3

overlap_default == 1

\* scaled from 100000 (better_search.py:101)
BetterMaxDocumentSize == 9

\* scaled from 10, 200, 50000, 1000 (ultra_safe_search.py:46-50)
max_documents == 3

max_total_chunks == 6

max_document_size == 8

max_words_in_index == 1

\* scaled from 100 (ultra_safe_search.py:251)
max_chunks_to_process == 5

\* the ceilings of n_results (better_search.py:150, ultra_safe_search.py:241)
BetterMaxResults == 5

UltraMaxResults == 3

\* f"{document_id}_{chunk['id']}" with chunk['id'] = f"chunk_{chunk_index}"
ChunkKey(document_id, chunk_index) == <<document_id, chunk_index>>

\* a dict that keeps the old entry of a key next to the new one
DictPutKeepsOld(d, entry) == Append(d, entry)

\* dict assignment d[key] = value on a dict kept as a sequence of entries in
\* insertion order: an existing key keeps its place
DictPut(d, entry) ==
    IF \E i \in 1..Len(d) : d[i].id = entry.id
    THEN [i \in 1..Len(d) |-> IF d[i].id = entry.id THEN entry ELSE d[i]]
    ELSE Append(d, entry)

\* documents[document_id] = {...}
PutDocument(docs, document_id, text, n_chunks) ==
    [d \in (DOMAIN docs) \cup {document_id} |->
        IF d = document_id
        THEN [text |-> text, chunk_count |-> n_chunks, total_chars |-> Len(text)]
        ELSE docs[d]]

\* inverted_index[word].add(chunk_id)
IndexAdd(index, word, chunk_id) ==
    [w \in (DOMAIN index) \cup {word} |->
        IF w = word
        THEN (IF w \in DOMAIN index THEN index[w] ELSE {}) \cup {chunk_id}
        ELSE index[w]]

\* _build_inverted_index on the words ws[k..]; ix = [index, word_count].
\* UltraSafeSearchEngine stops at the first word met with the index full.
RECURSIVE BuildIndex(_, _, _, _, _)
BuildIndex(variant, chunk_id, ws, k, ix) ==
    IF k > Len(ws) THEN ix
    ELSE IF variant = "ultra"
         THEN IF ix.word_count < max_words_in_index
              THEN LET index1 == IndexAdd(ix.index, ws[k], chunk_id)
                   IN  BuildIndex(variant, chunk_id, ws, k + 1,
                          [index |-> index1, word_count |-> Cardinality(DOMAIN index1)])
              ELSE ix
         ELSE BuildIndex(variant, chunk_id, ws, k + 1,
                 [ix EXCEPT !.index = IndexAdd(ix.index, ws[k], chunk_id)])

\* an index builder that ignores max_words_in_index
build_inverted_index_uncapped(variant, chunk_id, text, ix) ==
    BuildIndex("better", chunk_id, preprocess_text(variant, text), 1, ix)

build_inverted_index(variant, chunk_id, text, ix) ==
    BuildIndex(variant, chunk_id, preprocess_text(variant, text), 1, ix)

\* the entry stored in self.chunks
ChunkEntry(document_id, c) ==
    [id |-> ChunkKey(document_id, c.chunk_index), document_id |-> document_id,
     text |-> c.text, chunk_index |-> c.chunk_index, start_pos |-> c.start_pos,
     end_pos |-> c.end_pos, chunk_size |-> c.chunk_size]

\* `for chunk in chunks:` of add_document from the k-th chunk on;
\* col = [documents, chunks, index, word_count, chunk_count]
RECURSIVE StoreChunks(_, _, _, _, _)
StoreChunks(variant, document_id, cs, k, col) ==
    IF k > Len(cs) THEN col
    ELSE LET entry == ChunkEntry(document_id, cs[k])
             ix    == build_inverted_index(variant, entry.id, entry.text,
                         [index |-> col.index, word_count |-> col.word_count])
         IN  StoreChunks(variant, document_id, cs, k + 1,
                [col EXCEPT !.chunks      = DictPut(col.chunks, entry),
                            !.index       = ix.index,
                            !.word_count  = ix.word_count,
                            !.chunk_count = IF variant = "ultra" THEN @ + 1 ELSE @])

(***************************************************************************)
(* add_document.  col = [documents, chunks, index, word_count,             *)
(* chunk_count]; the outcome is the value returned ("True", "False", or    *)
(* "hang" when chunk_document never returns) and the collection after it.  *)
(***************************************************************************)
Outcome(result, col) == [result |-> result, col |-> col]

\* BetterSearchEngine.add_document
better_add_document(col, document_id, text) ==
    LET text1 == IF Len(text) > BetterMaxDocumentSize
                 THEN Prefix(text, BetterMaxDocumentSize) ELSE text
        r     == chunk_document("better", text1, chunk_size_default, overlap_default)
    IN  IF ~r.returns THEN Outcome("hang", col)
        ELSE IF r.chunks = <<>> THEN Outcome("False", col)
        ELSE Outcome("True",
                StoreChunks("better", document_id, r.chunks, 1,
                    [col EXCEPT !.documents =
                        PutDocument(col.documents, document_id, text1, Len(r.chunks))]))

\* UltraSafeSearchEngine.add_document without the check of the chunk count
\* before chunking
ultra_add_document_unchecked(col, document_id, text) ==
    IF Cardinality(DOMAIN col.documents) >= max_documents THEN Outcome("False", col)
    ELSE LET text1 == IF Len(text) > max_document_size
                      THEN Prefix(text, max_document_size) ELSE text
             r     == chunk_document("ultra", text1, chunk_size_default, overlap_default)
         IN  IF ~r.returns THEN Outcome("hang", col)
             ELSE IF r.chunks = <<>> THEN Outcome("False", col)
             ELSE LET kept == IF col.chunk_count + Len(r.chunks) > max_total_chunks
                              THEN Prefix(r.chunks, max_total_chunks - col.chunk_count)
                              ELSE r.chunks
                  IN  Outcome("True",
                         StoreChunks("ultra", document_id, kept, 1,
                             [col EXCEPT !.documents =
                                 PutDocument(col.documents, document_id, text1, Len(kept))]))

\* UltraSafeSearchEngine.add_document
ultra_add_document(col, document_id, text) ==
    IF Cardinality(DOMAIN col.documents) >= max_documents THEN Outcome("False", col)
    ELSE IF col.chunk_count >= max_total_chunks THEN Outcome("False", col)
    ELSE LET text1 == IF Len(text) > max_document_size
                      THEN Prefix(text, max_document_size) ELSE text
             r     == chunk_document("ultra", text1, chunk_size_default, overlap_default)
         IN  IF ~r.returns THEN Outcome("hang", col)
             ELSE IF r.chunks = <<>> THEN Outcome("False", col)
             ELSE LET kept == IF col.chunk_count + Len(r.chunks) > max_total_chunks
                              THEN Prefix(r.chunks, max_total_chunks - col.chunk_count)
                              ELSE r.chunks
                  IN  Outcome("True",
                         StoreChunks("ultra", document_id, kept, 1,
                             [col EXCEPT !.documents =
                                 PutDocument(col.documents, document_id, text1, Len(kept))]))

\* an add_document that writes the document record before it decides
add_document_records_first(variant, col, document_id, text) ==
    LET out == IF variant = "ultra" THEN ultra_add_document(col, document_id, text)
               ELSE better_add_document(col, document_id, text)
    IN  IF out.result = "False"
        THEN Outcome("False",
                [col EXCEPT !.documents = PutDocument(col.documents, document_id, text, 0)])
        ELSE out

add_document(variant, col, document_id, text) ==
    IF variant = "ultra" THEN ultra_add_document(col, document_id, text)
    ELSE better_add_document(col, document_id, text)

(***************************************************************************)
(* Rational numbers <<numerator, denominator>>, denominator > 0, in lowest *)
(* terms.                                                                  *)
(***************************************************************************)
RECURSIVE Gcd(_, _)
Gcd(a, b) == IF b = 0 THEN a ELSE Gcd(b, a % b)

Abs(x) == IF x < 0 THEN -x ELSE x

Rat(n, d) == LET g == Gcd(Abs(n), d) IN <<n \div g, d \div g>>

RatAdd(a, b) == Rat(a[1] * b[2] + b[1] * a[2], a[2] * b[2])

RatMul(a, b) == Rat(a[1] * b[1], a[2] * b[2])

RatGe(a, b) == a[1] * b[2] >= b[1] * a[2]

RatGt(a, b) == a[1] * b[2] > b[1] * a[2]

Zero == Rat(0, 1)

(***************************************************************************)
(* Scoring.  list(a_set) enumerates a set of strings in the order of their *)
(* slots in the hash table: it follows the string hashes, which Python     *)
(* draws per process, and, where members collide, the order in which they  *)
(* were inserted.  An order is a sequence holding every word once, and a   *)
(* set is listed in the order of its words in it; order.query is the order *)
(* of the set built from the query, order.chunk the one of the sets built  *)
(* from chunk texts.                                                       *)
(***************************************************************************)
Position(seq, x) == CHOOSE i \in 1..Len(seq) : seq[i] = x

\* list(words) under the hash order `order`
ListOfSet(words, order) ==
    SelectSeq(order, LAMBDA w : w \in words)

\* f"{w1} {w2}"
TwoWords(w1, w2) == w1 \o <<" ">> \o w2

\* within how many positions two words count as near (better_search.py:209)
ProximityWindow == 3

\* the signals and the composite score BetterSearchEngine computes for one chunk
better_score(query, chunk_text, order) ==
    LET query_words   == ToSet(preprocess_text("better", query))
        chunk_words   == ToSet(preprocess_text("better", chunk_text))
        intersection  == Cardinality(query_words \cap chunk_words)
        union         == Cardinality(query_words \cup chunk_words)
        jaccard_score == IF union > 0 THEN Rat(intersection, union) ELSE Zero
        word_overlap  == IF Cardinality(query_words) > 0
                         THEN Rat(intersection, Cardinality(query_words)) ELSE Zero
        query_lower   == Lower(query)
        chunk_lower   == Lower(chunk_text)
        phrase_bonus  == IF Contains(chunk_lower, query_lower) THEN Rat(1, 1) ELSE Zero
        qlist         == ListOfSet(query_words, order.query)
        partial_phrase_bonus ==
            IF \E i \in 1..(Len(qlist) - 1) :
                   Contains(chunk_lower, TwoWords(qlist[i], qlist[i + 1]))
            THEN Rat(1, 2) ELSE Zero
        individual_word_bonus ==
            Rat(Cardinality({i \in 1..Len(qlist) : Contains(chunk_lower, qlist[i])}), 10)
        clist         == ListOfSet(chunk_words, order.chunk)
        near          == {i \in 1..(Len(qlist) - 1) :
                            /\ qlist[i] \in chunk_words
                            /\ qlist[i + 1] \in chunk_words
                            /\ Abs(Position(clist, qlist[i]) - Position(clist, qlist[i + 1]))
                                  <= ProximityWindow}
        proximity_bonus == IF Len(qlist) > 1 THEN Rat(2 * Cardinality(near), 10) ELSE Zero
        final_score   ==
            RatAdd(phrase_bonus,
            RatAdd(partial_phrase_bonus,
            RatAdd(RatMul(word_overlap, Rat(3, 10)),
            RatAdd(individual_word_bonus,
            RatAdd(proximity_bonus, RatMul(jaccard_score, Rat(1, 10)))))))
    IN  [similarity_score |-> final_score, jaccard_score |-> jaccard_score,
         word_overlap |-> word_overlap, phrase_bonus |-> phrase_bonus,
         partial_phrase_bonus |-> partial_phrase_bonus,
         individual_word_bonus |-> individual_word_bonus,
         proximity_bonus |-> proximity_bonus]

\* the score UltraSafeSearchEngine computes for one chunk
ultra_score(query, chunk_text) ==
    LET query_words   == ToSet(preprocess_text("ultra", query))
        chunk_words   == ToSet(preprocess_text("ultra", chunk_text))
        intersection  == Cardinality(query_words \cap chunk_words)
        union         == Cardinality(query_words \cup chunk_words)
        jaccard_score == IF union > 0 THEN Rat(intersection, union) ELSE Zero
        phrase_bonus  == IF Contains(Lower(chunk_text), Lower(query))
                         THEN Rat(2, 10) ELSE Zero
    IN  [similarity_score |-> RatAdd(jaccard_score, phrase_bonus),
         jaccard_score |-> jaccard_score, word_overlap |-> Zero,
         phrase_bonus |-> phrase_bonus, partial_phrase_bonus |-> Zero,
         individual_word_bonus |-> Zero, proximity_bonus |-> Zero]

score(variant, query, chunk_text, order) ==
    IF variant = "ultra" THEN ultra_score(query, chunk_text)
    ELSE better_score(query, chunk_text, order)

(***************************************************************************)
(* search_similar.                                                         *)
(***************************************************************************)
\* a sort that puts x in front of the items of equal score
RECURSIVE InsertBeforeTies(_, _)
InsertBeforeTies(sorted, x) ==
    IF sorted = <<>> THEN <<x>>
    ELSE IF RatGt(Head(sorted).scores.similarity_score, x.scores.similarity_score)
         THEN <<Head(sorted)>> \o InsertBeforeTies(Tail(sorted), x)
         ELSE <<x>> \o sorted

\* sorted(items, key=similarity_score, reverse=True): a stable sort, so x goes
\* behind every item whose score is at least its own
RECURSIVE InsertByScore(_, _)
InsertByScore(sorted, x) ==
    IF sorted = <<>> THEN <<x>>
    ELSE IF RatGe(Head(sorted).scores.similarity_score, x.scores.similarity_score)
         THEN <<Head(sorted)>> \o InsertByScore(Tail(sorted), x)
         ELSE <<x>> \o sorted

RECURSIVE SortByScore(_, _)
SortByScore(items, k) ==
    IF k = 0 THEN <<>> ELSE InsertByScore(SortByScore(items, k - 1), items[k])

sorted_by_score(items) == SortByScore(items, Len(items))

\* the chunks the scoring loop visits
Scanned(variant, chunk_entries) ==
    IF variant = "ultra" THEN Prefix(chunk_entries, max_chunks_to_process)
    ELSE chunk_entries

MaxResults(variant) == IF variant = "ultra" THEN UltraMaxResults ELSE BetterMaxResults

\* a filter that drops the chunks whose score equals the threshold
chunk_scores_above(variant, chunk_entries, query, threshold, order) ==
    LET visited == Scanned(variant, chunk_entries)
        scored  == [i \in 1..Len(visited) |->
                      [entry  |-> visited[i],
                       scores |-> score(variant, query, visited[i].text, order)]]
    IN  SelectSeq(scored, LAMBDA x : RatGt(x.scores.similarity_score, threshold))

\* chunk_scores: the visited chunks whose score reaches the threshold, in the
\* order of the visit
chunk_scores(variant, chunk_entries, query, threshold, order) ==
    LET visited == Scanned(variant, chunk_entries)
        scored  == [i \in 1..Len(visited) |->
                      [entry  |-> visited[i],
                       scores |-> score(variant, query, visited[i].text, order)]]
    IN  SelectSeq(scored, LAMBDA x : RatGe(x.scores.similarity_score, threshold))

\* one element of the list search_similar returns
ResultEntry(x, rank) ==
    [document_id |-> x.entry.document_id, chunk_index |-> x.entry.chunk_index,
     chunk_text |-> x.entry.text, rank |-> rank,
     similarity_score |-> x.scores.similarity_score,
     jaccard_score |-> x.scores.jaccard_score,
     word_overlap |-> x.scores.word_overlap,
     phrase_bonus |-> x.scores.phrase_bonus,
     partial_phrase_bonus |-> x.scores.partial_phrase_bonus,
     individual_word_bonus |-> x.scores.individual_word_bonus,
     proximity_bonus |-> x.scores.proximity_bonus]

search_similar(variant, chunk_entries, query, n_results, threshold, order) ==
    LET n1 == Min(n_results, MaxResults(variant))
    IN  IF preprocess_text(variant, query) = <<>> THEN <<>>
        ELSE LET top == Slice(sorted_by_score(
                                chunk_scores(variant, chunk_entries, query, threshold, order)),
                              0, n1)
             IN  [i \in 1..Len(top) |-> ResultEntry(top[i], i)]

\* get_collection_stats
get_collection_stats(col) ==
    [total_chunks |-> Len(col.chunks),
     total_documents |-> Cardinality(DOMAIN col.documents),
     total_words |-> Cardinality(DOMAIN col.index)]

(***************************************************************************)
(* The inputs.                                                             *)
(***************************************************************************)
T_empty == <<>>

T_blank == <<" ">>

T_Ab == <<"A", "b">>

T_a_b == <<"a", " ", "b">>

T_ab_ba == <<"a", "b", " ", "b", "a">>

T_long == <<"a", "b", " ", "b", "a", " ", "a", "b", " ", "b">>

\* no character, whitespace only, one window, one window of two words, two
\* windows, and a text longer than both document size limits
Texts == {T_empty, T_blank, T_Ab, T_a_b, T_ab_ba, T_long}

Queries == {T_blank, <<"a", "b">>, <<"b", " ", "a">>}

NResults == {-1, 0, 2, 7}

Thresholds == {Rat(0, 1), Rat(1, 2)}

DocIds(variant) == IF variant = "ultra" THEN {"d1", "d2", "d3", "d4"} ELSE {"d1", "d2"}

\* every word of the inputs, in one order and in the opposite order
WordOrder == <<<<"a">>, <<"a", "b">>, <<"b">>, <<"b", "a">>>>

Reverse(seq) == [i \in 1..Len(seq) |-> seq[Len(seq) + 1 - i]]

HashOrders(variant) ==
    IF variant = "ultra" THEN {[query |-> WordOrder, chunk |-> WordOrder]}
    ELSE {[query |-> WordOrder, chunk |-> WordOrder],
          [query |-> Reverse(WordOrder), chunk |-> Reverse(WordOrder)]}

(***************************************************************************)
(* The engine as a state machine: a caller makes one call at a time, reads *)
(* the value returned and makes the next call.                             *)
(***************************************************************************)
Col == [documents |-> documents, chunks |-> chunks, index |-> inverted_index,
        word_count |-> current_word_count, chunk_count |-> current_chunk_count]

NoDocuments == [d \in {} |-> 0]

\* replaced: the text add_document found stored under its document_id (<<>>: none)
NoCall == [op |-> "none", document_id |-> "", text |-> <<>>, replaced |-> <<>>,
           query |-> <<>>, n_results |-> 0, threshold |-> Zero]

NoStats == [total_chunks |-> 0, total_documents |-> 0, total_words |-> 0]

NoRet == [value |-> "none", results |-> <<>>, stats |-> NoStats]

NoLoop == [variant |-> "none", text |-> <<>>, chunk_size |-> 0, overlap |-> 0,
           st |-> [LoopStart EXCEPT !.status = "done"], iter |-> 0]

\* no scores are being compared
NoTrial == [step |-> "none"]

\* the web application is not running
NoApp == [now |-> 0]

FreshHist == [ids |-> {}, distinct |-> TRUE, dropped |-> 0]

EngineInit ==
    /\ engine \in {"better", "ultra"}
    /\ hash_order \in HashOrders(engine)
    /\ documents = NoDocuments
    /\ chunks = <<>>
    /\ inverted_index = NoDocuments
    /\ current_chunk_count = 0
    /\ current_word_count = 0
    /\ pc = "idle"
    /\ call = NoCall
    /\ ret = NoRet
    /\ hist = FreshHist

Init == EngineInit /\ loop = NoLoop /\ trial = NoTrial /\ app = NoApp

\* hist: the ids add_document was called with since the collection was last
\* empty by construction or clear_collection, while every call had a new id and
\* a text that is not blank (kept for UltraSafeSearchEngine, whose
\* document limit it is read for); dropped: the number of documents the last
\* clear_collection removed, while no add_document was called since
NextHist(h, document_id, text) ==
    IF h.distinct /\ document_id \notin h.ids /\ Strip(text) # <<>>
    THEN [ids |-> h.ids \cup {document_id}, distinct |-> TRUE, dropped |-> 0]
    ELSE [ids |-> {}, distinct |-> FALSE, dropped |-> 0]

AddDocument(document_id, text) ==
    /\ pc = "idle"
    /\ LET out == add_document(engine, Col, document_id, text)
       IN  /\ documents' = out.col.documents
           /\ chunks' = out.col.chunks
           /\ inverted_index' = out.col.index
           /\ current_word_count' = out.col.word_count
           /\ current_chunk_count' = out.col.chunk_count
           /\ pc' = IF out.result = "hang" THEN "hung" ELSE "returned"
           /\ ret' = [NoRet EXCEPT !.value = out.result]
    /\ call' = [NoCall EXCEPT !.op = "add_document", !.document_id = document_id,
                              !.text = text,
                              !.replaced = IF document_id \in DOMAIN documents
                                           THEN documents[document_id].text ELSE <<>>]
    /\ hist' = IF engine = "ultra" THEN NextHist(hist, document_id, text) ELSE hist
    /\ UNCHANGED <<engine, hash_order, loop, trial, app>>

\* a search_similar that looks its query words up in the defaultdict index,
\* which creates an entry for each of them
SearchSimilarTouchesIndex(query, n_results, threshold) ==
    /\ pc = "idle"
    /\ pc' = "returned"
    /\ call' = [NoCall EXCEPT !.op = "search_similar", !.query = query,
                              !.n_results = n_results, !.threshold = threshold]
    /\ ret' = [NoRet EXCEPT !.value = "list",
                 !.results = search_similar(engine, chunks, query, n_results,
                                            threshold, hash_order)]
    /\ inverted_index' =
          [w \in DOMAIN inverted_index \cup TokenSet(engine, query) |->
              IF w \in DOMAIN inverted_index THEN inverted_index[w] ELSE {}]
    /\ UNCHANGED <<engine, hash_order, documents, chunks, current_chunk_count,
                   current_word_count, hist, loop, trial, app>>

SearchSimilar(query, n_results, threshold) ==
    /\ pc = "idle"
    /\ pc' = "returned"
    /\ call' = [NoCall EXCEPT !.op = "search_similar", !.query = query,
                              !.n_results = n_results, !.threshold = threshold]
    /\ ret' = [NoRet EXCEPT !.value = "list",
                 !.results = search_similar(engine, chunks, query, n_results,
                                            threshold, hash_order)]
    /\ UNCHANGED <<engine, hash_order, collectionVars, hist, loop, trial, app>>

GetCollectionStats ==
    /\ pc = "idle"
    /\ pc' = "returned"
    /\ call' = [NoCall EXCEPT !.op = "get_collection_stats"]
    /\ ret' = [NoRet EXCEPT !.value = "stats", !.stats = get_collection_stats(Col)]
    /\ UNCHANGED <<engine, hash_order, collectionVars, hist, loop, trial, app>>

\* a clear_collection that forgets the inverted index
ClearCollectionKeepsIndex ==
    /\ pc = "idle"
    /\ engine = "ultra"
    /\ documents' = NoDocuments
    /\ chunks' = <<>>
    /\ current_chunk_count' = 0
    /\ pc' = "returned"
    /\ call' = [NoCall EXCEPT !.op = "clear_collection"]
    /\ ret' = NoRet
    /\ hist' = [FreshHist EXCEPT !.dropped = Cardinality(DOMAIN documents)]
    /\ UNCHANGED <<engine, hash_order, loop, trial, app, inverted_index, current_word_count>>

\* UltraSafeSearchEngine.clear_collection (BetterSearchEngine has no such method)
ClearCollection ==
    /\ pc = "idle"
    /\ engine = "ultra"
    /\ documents' = NoDocuments
    /\ chunks' = <<>>
    /\ inverted_index' = NoDocuments
    /\ current_chunk_count' = 0
    /\ current_word_count' = 0
    /\ pc' = "returned"
    /\ call' = [NoCall EXCEPT !.op = "clear_collection"]
    /\ ret' = NoRet
    /\ hist' = [FreshHist EXCEPT !.dropped = Cardinality(DOMAIN documents)]
    /\ UNCHANGED <<engine, hash_order, loop, trial, app>>

\* the caller has read the returned value and is ready for its next call
Return ==
    /\ pc = "returned"
    /\ pc' = "idle"
    /\ call' = NoCall
    /\ ret' = NoRet
    /\ UNCHANGED <<engine, hash_order, collectionVars, hist, loop, trial, app>>

Next ==
    \/ \E d \in DocIds(engine), t \in Texts : AddDocument(d, t)
    \/ \E q \in Queries, n \in NResults, t \in Thresholds : SearchSimilar(q, n, t)
    \/ GetCollectionStats
    \/ ClearCollection
    \/ Return

Spec == Init /\ [][Next]_vars

(***************************************************************************)
(* chunk_document one loop iteration at a time, for every text up to       *)
(* MaxChunkTextLen characters and every configuration with                 *)
(* 0 <= overlap < chunk_size <= MaxChunkSize.                              *)
(***************************************************************************)
MaxChunkTextLen == 4

MaxChunkSize == 3

\* the number of chunk descriptors the process has memory for: beyond it
\* chunks.append raises MemoryError, which `except Exception` turns into return []
MaxLoopChunks == 5

ChunkAlphabet == {"a", " "}

RECURSIVE TextsUpTo(_)
TextsUpTo(n) ==
    IF n = 0 THEN {<<>>}
    ELSE LET shorter == TextsUpTo(n - 1)
         IN  shorter \cup {Append(t, c) : t \in {u \in shorter : Len(u) = n - 1},
                                          c \in ChunkAlphabet}

ChunkTexts == TextsUpTo(MaxChunkTextLen)

Variants == {"better", "ultra", "simple"}

InitChunk ==
    /\ engine = "better"
    /\ hash_order = WordOrder
    /\ documents = NoDocuments
    /\ chunks = <<>>
    /\ inverted_index = NoDocuments
    /\ current_chunk_count = 0
    /\ current_word_count = 0
    /\ pc = "idle"
    /\ call = NoCall
    /\ ret = NoRet
    /\ hist = FreshHist
    /\ \E v \in Variants, t \in ChunkTexts, cs \in 1..MaxChunkSize :
          \E ov \in 0..(cs - 1) :
             loop = [variant |-> v, text |-> t, chunk_size |-> cs, overlap |-> ov,
                     st |-> LoopStart, iter |-> 0]
    /\ trial = NoTrial
    /\ app = NoApp

OutOfMemory == Len(loop.st.chunks) >= MaxLoopChunks

\* how far below 0 the loop is followed when start keeps falling
MaxBackward == 6

\* one evaluation of the loop condition and the loop body; iter is the parity
\* of the number of iterations run
ChunkStep ==
    /\ loop.st.status = "loop"
    /\ ~OutOfMemory
    /\ loop.st.start >= -MaxBackward
    /\ loop' = [loop EXCEPT
                  !.st = ChunkIter(loop.variant, loop.text, loop.chunk_size,
                                   loop.overlap, loop.st),
                  !.iter = 1 - @]
    /\ UNCHANGED <<engineVars, trial, app>>

\* the except clause of chunk_document: the error is logged and [] returned
ChunkError ==
    /\ loop.st.status = "loop"
    /\ OutOfMemory
    /\ loop' = [loop EXCEPT !.st = [@ EXCEPT !.status = "error", !.chunks = <<>>]]
    /\ UNCHANGED <<engineVars, trial, app>>

NextChunk == ChunkStep \/ ChunkError

\* a running loop keeps running: the interpreter executes the next iteration
SpecChunk == InitChunk /\ [][NextChunk]_vars /\ WF_vars(ChunkStep) /\ WF_vars(ChunkError)

\* chunk_document called with an overlap that is not below chunk_size
InitMisconfigured ==
    /\ engine = "better"
    /\ hash_order = WordOrder
    /\ documents = NoDocuments
    /\ chunks = <<>>
    /\ inverted_index = NoDocuments
    /\ current_chunk_count = 0
    /\ current_word_count = 0
    /\ pc = "idle"
    /\ call = NoCall
    /\ ret = NoRet
    /\ hist = FreshHist
    /\ \E v \in Variants, t \in ChunkTexts, cs \in 1..MaxChunkSize :
          \E ov \in cs..(MaxChunkSize + 1) :
             loop = [variant |-> v, text |-> t, chunk_size |-> cs, overlap |-> ov,
                     st |-> LoopStart, iter |-> 0]
    /\ trial = NoTrial
    /\ app = NoApp

SpecMisconfigured ==
    InitMisconfigured /\ [][NextChunk]_vars /\ WF_vars(ChunkStep) /\ WF_vars(ChunkError)

(***************************************************************************)
(* The scores BetterSearchEngine.search_similar computes, for chosen       *)
(* queries and chunk texts and for the orders a process may list their     *)
(* token sets in: a trial scores chunk and chunk2 for query, and chunk for *)
(* query2.                                                                 *)
(***************************************************************************)
Q_ab == <<"a", " ", "b">>

Q_ba == <<"b", " ", "a">>

Q_abcd == <<"a", " ", "b", " ", "c", " ", "d">>

Q_badc == <<"b", " ", "a", " ", "d", " ", "c">>

Q_remote ==
    <<"r", "e", "m", "o", "t", "e", " ", "w", "o", "r", "k", " ", "p", "o",
      "l", "i", "c", "y">>

K_six == <<"a", " ", "b", " ", "c", " ", "d", " ", "e", " ", "f">>

K_part == <<"x", "a", " ", "b", "x">>

K_ba == <<"b", " ", "a">>

K_document ==
    <<"R", "e", "m", "o", "t", "e", " ", "w", "o", "r", "k", " ", "i", "s",
      " ", "a", "l", "l", "o", "w", "e", "d", " ", "u", "p", " ", "t", "o",
      " ", "3", " ", "d", "a", "y", "s", " ", "p", "e", "r", " ", "w", "e",
      "e", "k", " ", "w", "i", "t", "h", " ", "m", "a", "n", "a", "g", "e",
      "r", " ", "a", "p", "p", "r", "o", "v", "a", "l", ".">>

\* the default chunk_size and overlap of BetterSearchEngine.chunk_document
BetterChunkSize == 500

BetterOverlap == 100

\* the texts of the first two chunks add_document stores for a document
StoredChunkText(text, k) ==
    chunk_document("better", text, BetterChunkSize, BetterOverlap).chunks[k].text

TrialCases ==
    {[query |-> Q_abcd, query2 |-> Q_badc, chunk |-> K_six, chunk2 |-> K_ba],
     [query |-> Q_ab, query2 |-> Q_ba, chunk |-> K_six, chunk2 |-> K_ba],
     [query |-> Q_ab, query2 |-> Q_ab, chunk |-> K_part, chunk2 |-> K_ba],
     [query |-> Q_ab, query2 |-> Q_ab, chunk |-> K_six, chunk2 |-> K_ba],
     [query |-> Q_ba, query2 |-> Q_ba, chunk |-> K_ba, chunk2 |-> K_six],
     [query |-> Q_remote, query2 |-> Q_remote,
      chunk |-> StoredChunkText(K_document, 1),
      chunk2 |-> StoredChunkText(K_document, 2)]}

\* the members of a sequence, each once, in the order of their first occurrence
RECURSIVE FirstOccurrences(_)
FirstOccurrences(seq) ==
    IF seq = <<>> THEN <<>>
    ELSE LET front == FirstOccurrences(SubSeq(seq, 1, Len(seq) - 1))
             last  == seq[Len(seq)]
         IN  IF \E i \in 1..Len(front) : front[i] = last THEN front
             ELSE Append(front, last)

\* every order a set of words can be listed in
Orderings(words) ==
    {f \in [1..Cardinality(words) -> words] :
        \A i, j \in 1..Cardinality(words) : f[i] = f[j] => i = j}

\* the third and fourth member moved behind the others
MoveBack(seq) ==
    IF Len(seq) < 5 THEN seq
    ELSE <<seq[1], seq[2]>> \o SubSeq(seq, 5, Len(seq)) \o <<seq[3], seq[4]>>

\* three of the orders the words of two chunk texts can be listed in
ChunkOrders(chunk, chunk2) ==
    LET base == FirstOccurrences(preprocess_text("better", chunk)
                                 \o preprocess_text("better", chunk2))
    IN  {base, Reverse(base), MoveBack(base)}

\* Two set objects built from the same token sequence in one process list in
\* the same order; built from different sequences they may not.
InitScore ==
    /\ engine = "better"
    /\ hash_order \in HashOrders("ultra")
    /\ documents = NoDocuments
    /\ chunks = <<>>
    /\ inverted_index = NoDocuments
    /\ current_chunk_count = 0
    /\ current_word_count = 0
    /\ pc = "idle"
    /\ call = NoCall
    /\ ret = NoRet
    /\ hist = FreshHist
    /\ loop = NoLoop
    /\ app = NoApp
    /\ \E c \in TrialCases :
          \E qo \in Orderings(TokenSet("better", c.query)),
             qo2 \in Orderings(TokenSet("better", c.query2)),
             co \in ChunkOrders(c.chunk, c.chunk2) :
             /\ preprocess_text("better", c.query) = preprocess_text("better", c.query2)
                   => qo2 = qo
             /\ trial = [step |-> "input", query |-> c.query, query2 |-> c.query2,
                         chunk |-> c.chunk, chunk2 |-> c.chunk2,
                         order |-> [query |-> qo, chunk |-> co],
                         order2 |-> [query |-> qo2, chunk |-> co]]

\* the scoring of search_similar, applied to the texts of the trial
ScoreTrial ==
    /\ trial.step = "input"
    /\ trial' = [step |-> "scored", query |-> trial.query, query2 |-> trial.query2,
                 chunk |-> trial.chunk, chunk2 |-> trial.chunk2,
                 order |-> trial.order, order2 |-> trial.order2,
                 s  |-> better_score(trial.query, trial.chunk, trial.order),
                 sc |-> better_score(trial.query, trial.chunk2, trial.order),
                 sq |-> better_score(trial.query2, trial.chunk, trial.order2)]
    /\ UNCHANGED <<engineVars, loop, app>>

NextScore == ScoreTrial

SpecScore == InitScore /\ [][NextScore]_vars

(***************************************************************************)
(* app.py: the Flask application.  One process-wide BetterSearchEngine     *)
(* (line 37) serves the routes /upload, /ask, /status and /clear.  In      *)
(* SpecApp the requests are handled one after the other.  app.now is the   *)
(* clock in seconds; app.cleared records that a /clear request was handled *)
(* and no /upload since.  Chunk metadata (the file name shown with a       *)
(* source) is not kept.                                                    *)
(***************************************************************************)
\* the methods class BetterSearchEngine defines
BetterMethods ==
    {"__init__", "chunk_document", "_preprocess_text", "_build_inverted_index",
     "add_document", "search_similar", "get_collection_stats"}

\* how many seconds the clock is followed for
MaxSeconds == 2

\* f"doc_{datetime.now().strftime('%Y%m%d_%H%M%S')}": the second of the upload
DocumentIdAt(now) == <<"doc", now>>

\* the arguments ask_question passes to search_similar
AskResults == 3

AskThreshold == Rat(1, 100)

\* a text with content whose last window is blank
T_a_sp == <<"a", " ">>

\* request.files of an /upload request: no file, a file whose extension is
\* not allowed, or a file with an allowed extension and the text extracted
\* from it
NoFile == [present |-> FALSE, allowed |-> FALSE, text |-> <<>>]

Uploads ==
    {NoFile, [present |-> TRUE, allowed |-> FALSE, text |-> T_Ab]}
        \cup {[present |-> TRUE, allowed |-> TRUE, text |-> t] :
                 t \in {T_blank, T_Ab, T_ab_ba, T_a_sp}}

\* a response: the status code, the message flashed and the JSON body
Response(status, flashed, json) ==
    [value |-> status, results |-> <<>>, stats |-> NoStats,
     flashed |-> flashed, json |-> json]

NoJson == [none |-> TRUE]

AppCall(route) == [NoCall EXCEPT !.op = route]

\* round(x, 3) and round(x, 1) on an exact rational, ties to the even digit
Pow10(d) == IF d = 0 THEN 1 ELSE IF d = 1 THEN 10 ELSE IF d = 2 THEN 100 ELSE 1000

Round(x, d) ==
    LET scaled == x[1] * Pow10(d)
        q      == scaled \div x[2]
        twice  == 2 * (scaled % x[2])
        up     == twice > x[2] \/ (twice = x[2] /\ q % 2 = 1)
    IN  Rat(IF up THEN q + 1 ELSE q, Pow10(d))

\* the constructor of the engine at import time
InitApp ==
    /\ engine = "better"
    /\ hash_order \in HashOrders("better")
    /\ documents = NoDocuments
    /\ chunks = <<>>
    /\ inverted_index = NoDocuments
    /\ current_chunk_count = 0
    /\ current_word_count = 0
    /\ pc = "idle"
    /\ call = NoCall
    /\ ret = NoRet
    /\ hist = FreshHist
    /\ loop = NoLoop
    /\ trial = NoTrial
    /\ app = [now |-> 1, cleared |-> FALSE]

\* a second passes
Tick ==
    /\ pc = "idle"
    /\ app.now < MaxSeconds
    /\ app' = [app EXCEPT !.now = @ + 1]
    /\ UNCHANGED <<engineVars, loop, trial>>

\* upload_file
UploadFile(file) ==
    /\ pc = "idle"
    /\ call' = [AppCall("upload") EXCEPT !.text = file.text,
                                         !.document_id = DocumentIdAt(app.now)]
    /\ IF ~file.present
       THEN /\ ret' = Response("302", "No file selected", NoJson)
            /\ pc' = "returned"
            /\ UNCHANGED <<collectionVars, app>>
       ELSE IF ~file.allowed
       THEN /\ ret' = Response("302", "Invalid file type", NoJson)
            /\ pc' = "returned"
            /\ UNCHANGED <<collectionVars, app>>
       ELSE IF Strip(file.text) = <<>>
       THEN /\ ret' = Response("302", "Could not extract text from file", NoJson)
            /\ pc' = "returned"
            /\ UNCHANGED <<collectionVars, app>>
       ELSE LET out == add_document("better", Col, DocumentIdAt(app.now), file.text)
            IN  /\ documents' = out.col.documents
                /\ chunks' = out.col.chunks
                /\ inverted_index' = out.col.index
                /\ pc' = IF out.result = "hang" THEN "hung" ELSE "returned"
                /\ ret' = IF out.result = "True"
                          THEN Response("302", "uploaded and processed successfully", NoJson)
                          ELSE Response("302", "Failed to process document", NoJson)
                /\ app' = [app EXCEPT !.cleared = FALSE]
                /\ UNCHANGED <<current_chunk_count, current_word_count>>
    /\ UNCHANGED <<engine, hash_order, hist, loop, trial>>

\* ask_question
AskQuestion(question) ==
    /\ pc = "idle"
    /\ pc' = "returned"
    /\ call' = [AppCall("ask") EXCEPT !.query = Strip(question),
                                      !.n_results = AskResults,
                                      !.threshold = AskThreshold]
    /\ IF Strip(question) = <<>>
       THEN ret' = Response("400", "", [error |-> "Please enter a question"])
       ELSE LET results == search_similar("better", chunks, Strip(question),
                                          AskResults, AskThreshold, hash_order)
            IN  IF results = <<>>
                THEN ret' = Response("200", "",
                               [answer |-> <<>>, sources |-> <<>>, confidence |-> Zero])
                ELSE ret' = Response("200", "",
                               [answer  |-> results[1].chunk_text,
                                sources |-> [i \in 1..Len(results) |->
                                               [text  |-> results[i].chunk_text,
                                                score |-> Round(results[i].similarity_score, 3)]],
                                confidence |->
                                    LET percent == RatMul(results[1].similarity_score, Rat(100, 1))
                                    IN  Round(IF RatGe(percent, Rat(100, 1))
                                              THEN Rat(100, 1) ELSE percent, 1)])
    /\ UNCHANGED <<engine, hash_order, collectionVars, hist, loop, trial, app>>

\* status
Status ==
    /\ pc = "idle"
    /\ pc' = "returned"
    /\ call' = AppCall("status")
    /\ LET stats == get_collection_stats(Col)
       IN  ret' = Response("200", "",
                     [documents |-> stats.total_documents,
                      chunks |-> stats.total_chunks, status |-> "ready"])
    /\ UNCHANGED <<engine, hash_order, collectionVars, hist, loop, trial, app>>

\* clear_documents: search_engine.clear_collection() raises AttributeError
\* when the class does not define the method, and the except clause answers
ClearDocuments ==
    /\ pc = "idle"
    /\ pc' = "returned"
    /\ call' = AppCall("clear")
    /\ IF "clear_collection" \in BetterMethods
       THEN /\ documents' = NoDocuments
            /\ chunks' = <<>>
            /\ inverted_index' = NoDocuments
            /\ ret' = Response("200", "All documents cleared successfully!",
                               [success |-> TRUE])
       ELSE /\ UNCHANGED <<documents, chunks, inverted_index>>
            /\ ret' = Response("500", "", [error |-> "Failed to clear documents"])
    /\ app' = [app EXCEPT !.cleared = TRUE]
    /\ UNCHANGED <<engine, hash_order, current_chunk_count, current_word_count,
                   hist, loop, trial>>

\* the client has the response
Respond ==
    /\ pc = "returned"
    /\ pc' = "idle"
    /\ call' = NoCall
    /\ ret' = NoRet
    /\ UNCHANGED <<engine, hash_order, collectionVars, hist, loop, trial, app>>

NextApp ==
    \/ Tick
    \/ \E f \in Uploads : UploadFile(f)
    \/ \E q \in Queries : AskQuestion(q)
    \/ Status
    \/ ClearDocuments
    \/ Respond

SpecApp == InitApp /\ [][NextApp]_vars

(***************************************************************************)
(* UltraSafeSearchEngine filled to max_total_chunks and searched for a     *)
(* word that only late chunks hold.                                        *)
(***************************************************************************)
\* a text whose third window alone holds the word "ab"
T_a_a_ab == <<"a", " ", "a", " ", "a", "b">>

ScanTexts == {T_ab_ba, T_a_a_ab}

ScanQueries == {<<"a", "b">>}

InitScan == Init /\ engine = "ultra"

NextScan ==
    \/ \E d \in DocIds("ultra"), t \in ScanTexts : AddDocument(d, t)
    \/ \E q \in ScanQueries, n \in NResults, t \in Thresholds : SearchSimilar(q, n, t)
    \/ Return

SpecScan == InitScan /\ [][NextScan]_vars

(***************************************************************************)
(* app.py with two request threads: one handles /upload requests, one      *)
(* /ask requests, both on the process-wide BetterSearchEngine and without  *)
(* a lock.  The interpreter may switch threads between any two statements; *)
(* the steps here are: the part of add_document up to the write of the     *)
(* document record, each pass of its `for chunk in chunks` loop, the part  *)
(* of search_similar up to the creation of the iterator of                 *)
(* self.chunks.items(), and each call of the iterator's next().            *)
(* app.upload and app.ask are the positions of the two threads.            *)
(***************************************************************************)
UploadIdle == [status |-> "idle", document_id |-> "", pending |-> <<>>, k |-> 1]

\* used: the size of self.chunks when the iterator was made; partial and
\* lost record what the scan met
AskIdle ==
    [status |-> "idle", query |-> <<>>, used |-> 0, pos |-> 0,
     chunk_scores |-> <<>>, results |-> <<>>, partial |-> FALSE, lost |-> FALSE]

ConcurrentTexts == {T_Ab, T_ab_ba}

ConcurrentQueries == {<<"a", "b">>}

InitConcurrent ==
    /\ engine = "better"
    /\ hash_order \in HashOrders("ultra")
    /\ documents = NoDocuments
    /\ chunks = <<>>
    /\ inverted_index = NoDocuments
    /\ current_chunk_count = 0
    /\ current_word_count = 0
    /\ pc = "idle"
    /\ call = NoCall
    /\ ret = NoRet
    /\ hist = FreshHist
    /\ loop = NoLoop
    /\ trial = NoTrial
    /\ app = [now |-> 1, cleared |-> FALSE, upload |-> UploadIdle, ask |-> AskIdle]

\* the upload thread has written the document record and stored some, not
\* all, of the document's chunks
PartlyStored ==
    /\ app.upload.status = "storing"
    /\ 1 < app.upload.k
    /\ app.upload.k <= Len(app.upload.pending)

\* upload_file up to add_document's self.documents[document_id] = {...}
UploadStart(text) ==
    /\ app.upload.status = "idle"
    /\ LET text1 == IF Len(text) > BetterMaxDocumentSize
                    THEN Prefix(text, BetterMaxDocumentSize) ELSE text
           r     == chunk_document("better", text1, chunk_size_default, overlap_default)
           id    == DocumentIdAt(app.now)
       IN  /\ Strip(text) # <<>>
           /\ r.returns
           /\ r.chunks # <<>>
           /\ documents' = PutDocument(documents, id, text1, Len(r.chunks))
           /\ app' = [app EXCEPT !.upload = [status |-> "storing", document_id |-> id,
                                             pending |-> r.chunks, k |-> 1]]
    /\ UNCHANGED <<engine, hash_order, chunks, inverted_index, current_chunk_count,
                   current_word_count, pc, call, ret, hist, loop, trial>>

\* one pass of `for chunk in chunks:` of add_document; after the last one the
\* request is answered
UploadStoreChunk ==
    /\ app.upload.status = "storing"
    /\ LET up  == app.upload
           col == StoreChunks("better", up.document_id,
                              SubSeq(up.pending, up.k, up.k), 1, Col)
       IN  /\ chunks' = col.chunks
           /\ inverted_index' = col.index
           /\ app' = [app EXCEPT !.upload =
                         IF up.k = Len(up.pending) THEN UploadIdle
                         ELSE [up EXCEPT !.k = @ + 1]]
    /\ UNCHANGED <<engine, hash_order, documents, current_chunk_count,
                   current_word_count, pc, call, ret, hist, loop, trial>>

\* ask_question up to `for chunk_id, chunk_data in self.chunks.items():`
AskStart(question) ==
    /\ app.ask.status = "idle"
    /\ TokenSet("better", Strip(question)) # {}
    /\ app' = [app EXCEPT !.ask = [AskIdle EXCEPT !.status = "scanning",
                                                  !.query = Strip(question),
                                                  !.used = Len(chunks)]]
    /\ UNCHANGED <<engineVars, loop, trial>>

\* the entry self.chunks holds now under the id of a scored chunk
CurrentEntry(x) == chunks[CHOOSE i \in 1..Len(chunks) : chunks[i].id = x.entry.id]

\* One call of next() on the iterator and what follows it.  The iterator
\* raises RuntimeError when the dict has another size than at its creation,
\* and the except clause of search_similar returns []; otherwise the next
\* chunk is scored, or, at the end, the results are sorted and built.
AskScanChunk ==
    /\ app.ask.status = "scanning"
    /\ LET ask == app.ask
       IN  app' = [app EXCEPT !.ask =
              IF Len(chunks) # ask.used
              THEN [ask EXCEPT !.status = "done", !.results = <<>>, !.lost = TRUE]
              ELSE IF ask.pos < Len(chunks)
              THEN [ask EXCEPT
                      !.pos = @ + 1,
                      !.chunk_scores = @ \o chunk_scores("better", <<chunks[ask.pos + 1]>>,
                                                         ask.query, AskThreshold, hash_order),
                      !.partial = @ \/ PartlyStored]
              ELSE LET top == Slice(sorted_by_score(ask.chunk_scores), 0,
                                    Min(AskResults, BetterMaxResults))
                   IN  [ask EXCEPT
                          !.status = "done",
                          !.results = [i \in 1..Len(top) |->
                              ResultEntry([entry  |-> CurrentEntry(top[i]),
                                           scores |-> top[i].scores], i)]]]
    /\ UNCHANGED <<engineVars, loop, trial>>

\* the answer of /ask is sent
AskRespond ==
    /\ app.ask.status = "done"
    /\ app' = [app EXCEPT !.ask = AskIdle]
    /\ UNCHANGED <<engineVars, loop, trial>>

NextConcurrent ==
    \/ Tick
    \/ \E t \in ConcurrentTexts : UploadStart(t)
    \/ UploadStoreChunk
    \/ \E q \in ConcurrentQueries : AskStart(q)
    \/ AskScanChunk
    \/ AskRespond

SpecConcurrent == InitConcurrent /\ [][NextConcurrent]_vars

(***************************************************************************)
(* Properties.                                                             *)
(***************************************************************************)
Returned(op) == pc = "returned" /\ call.op = op

\* the text add_document chunks and stores: the prefix within the size limit
Truncated(variant, text) ==
    Prefix(text, IF variant = "ultra" THEN max_document_size ELSE BetterMaxDocumentSize)

\* the entries of self.chunks that belong to a document
ChunksOf(document_id) == SelectSeq(chunks, LAMBDA c : c.document_id = document_id)

\* C1: chunk_document terminates for every text and every configuration with
\* 0 <= overlap < chunk_size, in BetterSearchEngine, UltraSafeSearchEngine and
\* SimpleVectorSearchEngine: every run of the loop leaves the loop.
C1_ChunkDocumentTerminates == <>(loop.st.status # "loop")

\* C2: a call of add_document that returns False leaves documents, chunks, the
\* inverted index and both counters as they were before the call.
C2_FailedAddChangesNothing ==
    [][(pc = "idle" /\ call'.op = "add_document" /\ ret'.value = "False")
          => UNCHANGED collectionVars]_vars

\* a document with text was rejected by a collection that holds chunks
C2_Witness ==
    /\ Returned("add_document")
    /\ ret.value = "False"
    /\ call.text # <<>>
    /\ chunks # <<>>

\* C3: in UltraSafeSearchEngine the documents, the chunks, the indexed words and
\* every stored document's total_chars stay within the four limits.
C3_UltraLimits ==
    engine = "ultra" =>
        /\ Cardinality(DOMAIN documents) <= max_documents
        /\ Len(chunks) <= max_total_chunks
        /\ Cardinality(DOMAIN inverted_index) <= max_words_in_index
        /\ \A d \in DOMAIN documents : documents[d].total_chars <= max_document_size

\* the chunk limit and the word limit are reached, a stored document was cut
\* to max_document_size, and a word of a stored chunk is not in the index
C3_Witness ==
    /\ engine = "ultra"
    /\ Len(chunks) = max_total_chunks
    /\ Cardinality(DOMAIN inverted_index) = max_words_in_index
    /\ \E d \in DOMAIN documents : documents[d].total_chars = max_document_size
    /\ \E i \in 1..Len(chunks) :
          ToSet(preprocess_text("ultra", chunks[i].text)) \ DOMAIN inverted_index # {}

\* C4: in UltraSafeSearchEngine, from an empty collection, after
\* max_documents + 1 calls of add_document with distinct ids and non-empty texts
\* the collection holds max_documents documents and the last call returned False.
C4_DocumentLimitReached ==
    (/\ engine = "ultra"
     /\ Returned("add_document")
     /\ hist.distinct
     /\ Cardinality(hist.ids) = max_documents + 1)
        => (Cardinality(DOMAIN documents) = max_documents /\ ret.value = "False")

C6_BlankTextRejected ==
    (pc # "idle" /\ call.op = "add_document" /\ Strip(call.text) = <<>>)
        => /\ pc = "returned"
           /\ ret.value = "False"
           /\ call.replaced = <<>> => call.document_id \notin DOMAIN documents

\* C7: after add_document succeeded for an id that was stored already, the
\* stored chunks of that id are exactly the chunks of the new text, and
\* documents[id].chunk_count is their number.
C7_ReAddOverwrites ==
    (Returned("add_document") /\ ret.value = "True" /\ call.replaced # <<>>)
        => LET id  == call.document_id
               new == chunk_document(engine, Truncated(engine, call.text),
                                     chunk_size_default, overlap_default).chunks
           IN  /\ ToSet(ChunksOf(id)) = {ChunkEntry(id, new[i]) : i \in 1..Len(new)}
               /\ Len(ChunksOf(id)) = Len(new)
               /\ documents[id].chunk_count = Len(ChunksOf(id))

\* a stored document was replaced by one with another text and other chunks
C7_Witness ==
    /\ Returned("add_document")
    /\ ret.value = "True"
    /\ call.replaced # <<>>
    /\ call.replaced # Truncated(engine, call.text)
    /\ \E i \in 1..Len(chunks) :
          /\ chunks[i].document_id = call.document_id
          /\ ~Contains(call.replaced, chunks[i].text)

\* the result of the last search_similar holds the chunk c
InResults(c) ==
    \E i \in 1..Len(ret.results) :
        /\ ret.results[i].document_id = c.document_id
        /\ ret.results[i].chunk_index = c.chunk_index

\* the composite score of the stored chunk c for the query of the last call
ScoreOf(c) == score(engine, call.query, c.text, hash_order).similarity_score

Qualifies(c) == RatGe(ScoreOf(c), call.threshold)

Qualifying == {i \in 1..Len(chunks) : Qualifies(chunks[i])}

\* C8 as stated: a stored chunk is in the results of
\* BetterSearchEngine.search_similar(q, n, t) iff its composite score is >= t.
C8_ResultsIffThreshold ==
    (engine = "better" /\ Returned("search_similar"))
        => \A i \in 1..Len(chunks) : InResults(chunks[i]) <=> Qualifies(chunks[i])

\* C8 amended: every chunk in the results has a score >= t, and when q has a
\* token and at most min(n, 5) stored chunks have a score >= t, each of them is
\* in the results.
C8_ResultsWithinThreshold ==
    (engine = "better" /\ Returned("search_similar"))
        => /\ \A i \in 1..Len(chunks) : InResults(chunks[i]) => Qualifies(chunks[i])
           /\ (/\ preprocess_text("better", call.query) # <<>>
               /\ Cardinality(Qualifying) <= Min(call.n_results, BetterMaxResults))
                 => \A i \in Qualifying : InResults(chunks[i])

\* a search with room for all its qualifying chunks returned some chunks and
\* left out a chunk below the threshold
C8_Witness ==
    /\ engine = "better"
    /\ Returned("search_similar")
    /\ preprocess_text("better", call.query) # <<>>
    /\ Qualifying # {}
    /\ Cardinality(Qualifying) <= Min(call.n_results, BetterMaxResults)
    /\ \E i \in 1..Len(chunks) : ~Qualifies(chunks[i]) /\ ~InResults(chunks[i])
    /\ \E i \in Qualifying : InResults(chunks[i])

\* the place of a result's chunk in the insertion order of self.chunks
PlaceOf(r) ==
    CHOOSE i \in 1..Len(chunks) :
        chunks[i].document_id = r.document_id /\ chunks[i].chunk_index = r.chunk_index

\* C9: search_similar returns its results in non-increasing order of
\* similarity_score, and results of equal score in the insertion order of
\* their chunks.
C9_ResultsOrdered ==
    Returned("search_similar")
        => \A i, j \in 1..Len(ret.results) :
              i < j =>
                 /\ RatGe(ret.results[i].similarity_score, ret.results[j].similarity_score)
                 /\ ret.results[i].similarity_score = ret.results[j].similarity_score
                       => PlaceOf(ret.results[i]) < PlaceOf(ret.results[j])

\* a result list with two results of equal score and two of different scores,
\* the better one stored later than the other
C9_Witness ==
    /\ Returned("search_similar")
    /\ \E i, j \in 1..Len(ret.results) :
          i < j /\ ret.results[i].similarity_score = ret.results[j].similarity_score
    /\ \E i, j \in 1..Len(ret.results) :
          /\ i < j
          /\ RatGt(ret.results[i].similarity_score, ret.results[j].similarity_score)
          /\ PlaceOf(ret.results[i]) > PlaceOf(ret.results[j])

\* C10: for every n_results search_similar returns at most 5 results in
\* BetterSearchEngine and at most 3 in UltraSafeSearchEngine, and at most
\* n_results when n_results >= 0.
C10_ResultCountBounded ==
    Returned("search_similar")
        => /\ Len(ret.results) <= MaxResults(engine)
           /\ call.n_results >= 0 => Len(ret.results) <= call.n_results

\* C11: when the token set of the query is disjoint from the token set of
\* every stored chunk, BetterSearchEngine.search_similar returns an empty
\* list, for every threshold (0 and negative ones included) and every
\* n_results.
C11_DisjointQueryFindsNothing ==
    (/\ engine = "better"
     /\ Returned("search_similar")
     /\ \A i \in 1..Len(chunks) :
           TokenSet("better", call.query) \cap TokenSet("better", chunks[i].text) = {})
        => ret.results = <<>>

\* what get_collection_stats reports of a collection that holds nothing
EmptyStats == [total_chunks |-> 0, total_documents |-> 0, total_words |-> 0]

\* the collection holds nothing and both counters are 0
Cleared ==
    /\ documents = NoDocuments
    /\ chunks = <<>>
    /\ inverted_index = NoDocuments
    /\ current_chunk_count = 0
    /\ current_word_count = 0

\* C12: clear_collection leaves a state of which get_collection_stats reports
\* total_documents = 0, total_chunks = 0 and total_words = 0, with
\* current_chunk_count and current_word_count reset to 0; the
\* get_collection_stats that follows returns these zeros, and a second
\* clear_collection leaves the state as it is.
C12_ClearThenStats ==
    [][/\ (pc = "idle" /\ call'.op = "clear_collection")
            => /\ get_collection_stats(Col)' = EmptyStats
               /\ current_chunk_count' = 0 /\ current_word_count' = 0
               /\ Cleared => UNCHANGED collectionVars
       /\ (pc = "idle" /\ call'.op = "get_collection_stats" /\ hist.dropped > 0)
            => ret'.stats = EmptyStats]_vars

\* get_collection_stats has returned after a clear_collection that removed
\* documents, with no add_document in between
C12_Witness ==
    /\ engine = "ultra"
    /\ Returned("get_collection_stats")
    /\ hist.dropped > 1
    /\ ret.stats = EmptyStats

\* C13: the number of documents goes from 0 to positive only in a successful
\* add_document and from positive to 0 only in a clear_collection;
\* search_similar and get_collection_stats leave documents, chunks, the
\* inverted index and the counters unchanged; search_similar on a collection
\* without documents returns an empty list.
C13_CollectionLifecycle ==
    [][/\ (Cardinality(DOMAIN documents) = 0 /\ Cardinality(DOMAIN documents') > 0)
            => (call'.op = "add_document" /\ ret'.value = "True")
       /\ (Cardinality(DOMAIN documents) > 0 /\ Cardinality(DOMAIN documents') = 0)
            => call'.op = "clear_collection"
       /\ (pc = "idle" /\ call'.op \in {"search_similar", "get_collection_stats"})
            => UNCHANGED collectionVars
       /\ (pc = "idle" /\ call'.op = "search_similar" /\ DOMAIN documents = {})
            => ret'.results = <<>>]_vars

\* a search with a query that has a token, room for results and threshold 0
\* has returned nothing from a collection that clear_collection emptied
C13_Witness ==
    /\ Returned("search_similar")
    /\ hist.dropped > 0
    /\ DOMAIN documents = {}
    /\ TokenSet(engine, call.query) # {}
    /\ call.n_results > 0
    /\ call.threshold = Zero
    /\ ret.results = <<>>

\* the signals and the composite score a result entry carries
SignalsOf(r) ==
    [similarity_score |-> r.similarity_score, jaccard_score |-> r.jaccard_score,
     word_overlap |-> r.word_overlap, phrase_bonus |-> r.phrase_bonus,
     partial_phrase_bonus |-> r.partial_phrase_bonus,
     individual_word_bonus |-> r.individual_word_bonus,
     proximity_bonus |-> r.proximity_bonus]

\* C14: the composite score and every signal BetterSearchEngine.search_similar
\* computes for a chunk depend only on the query and the chunk text: they are
\* the values every iteration order of the token sets gives.
C14_ScoreIndependentOfOrder ==
    (engine = "better" /\ Returned("search_similar"))
        => \A i \in 1..Len(ret.results) : \A order \in HashOrders("better") :
              SignalsOf(ret.results[i])
                 = better_score(call.query, ret.results[i].chunk_text, order)

\* the same tokens in another order
IsPermutation(tokens, tokens2) ==
    /\ Len(tokens) = Len(tokens2)
    /\ tokens # tokens2
    /\ \A w \in ToSet(tokens) \cup ToSet(tokens2) :
          Cardinality({i \in 1..Len(tokens) : tokens[i] = w})
             = Cardinality({i \in 1..Len(tokens2) : tokens2[i] = w})

\* C15: for a fixed chunk, a query that is a contiguous substring of the
\* chunk text (two tokens or more) scores strictly higher in
\* BetterSearchEngine than a query made of the same tokens in a permuted
\* order that does not occur contiguously in the chunk.
C15_ExactSubstringScoresHigher ==
    (/\ trial.step = "scored"
     /\ Contains(trial.chunk, trial.query)
     /\ Len(preprocess_text("better", trial.query)) >= 2
     /\ IsPermutation(preprocess_text("better", trial.query),
                      preprocess_text("better", trial.query2))
     /\ ~Contains(Lower(trial.chunk), Lower(trial.query2)))
        => RatGt(trial.s.similarity_score, trial.sq.similarity_score)

\* C16: a chunk whose lowercased text contains the whole lowercased query is
\* ranked before a chunk that does not contain it and contains words of the
\* query only individually: the second never scores higher than the first.
C16_PhraseChunkRankedFirst ==
    (/\ trial.step = "scored"
     /\ TokenSet("better", trial.query) # {}
     /\ Contains(Lower(trial.chunk), Lower(trial.query))
     /\ ~Contains(Lower(trial.chunk2), Lower(trial.query))
     /\ \E w \in TokenSet("better", trial.query) : Contains(Lower(trial.chunk2), w))
        => RatGe(trial.s.similarity_score, trial.sc.similarity_score)

\* the default threshold of BetterSearchEngine.search_similar, 0.01
BetterDefaultThreshold == Rat(1, 100)

\* C17: with the document "Remote work is allowed up to 3 days per week with
\* manager approval." stored in BetterSearchEngine, the query "remote work
\* policy" returns a chunk of the document on top, with phrase_bonus or
\* partial_phrase_bonus greater than 0, in every run.
C17_RemoteWorkScenario ==
    (/\ trial.step = "scored"
     /\ trial.query = Q_remote
     /\ trial.chunk = StoredChunkText(K_document, 1))
        => LET top == IF RatGe(trial.s.similarity_score, trial.sc.similarity_score)
                      THEN trial.s ELSE trial.sc
           IN  /\ RatGe(top.similarity_score, BetterDefaultThreshold)
               /\ RatGt(top.phrase_bonus, Zero) \/ RatGt(top.partial_phrase_bonus, Zero)

\* C18: called with overlap >= chunk_size, chunk_document reports a
\* configuration error: when it returns, it returns no chunks (it neither
\* loops without progress nor emits repeated chunks).
C18_MisconfigurationRejected ==
    (loop.overlap >= loop.chunk_size /\ loop.st.status \in {"done", "error"})
        => loop.st.chunks = <<>>

\* the largest number of chunks per document the engine is meant to keep
ChunkLimit(variant) ==
    IF variant = "ultra" THEN max_chunks_per_document ELSE BetterChunkLimit

\* C19: chunk_document never returns more chunks than the maximum per
\* document: 1000 in BetterSearchEngine (the same loop as FixedSearchEngine
\* and LightweightSearchEngine) and max_chunks_per_document in
\* UltraSafeSearchEngine.
C19_ChunkCountWithinLimit ==
    (loop.variant \in {"better", "ultra"} /\ loop.st.status = "done")
        => Len(loop.st.chunks) <= ChunkLimit(loop.variant)

\* the 0-based positions of text that the slice text[start:end] covers
SlicePositions(text, start, end) ==
    LET from == IF start < 0 THEN Max(Len(text) + start, 0) ELSE start
    IN  {i \in 0..(Len(text) - 1) : from <= i /\ i < end}

\* the positions of text whose characters text[start:end].strip() keeps
KeptPositions(text, start, end) ==
    LET window == SlicePositions(text, start, end)
        nonsp == {i \in window : ~IsSpace(text[i + 1])}
    IN  {i \in window : (\E j \in nonsp : j <= i) /\ (\E k \in nonsp : k >= i)}

\* the positions of a stored document's text that its stored chunks hold
CoveredPositions(document_id) ==
    LET text == documents[document_id].text
        held == ChunksOf(document_id)
    IN  UNION {KeptPositions(text, held[i].start_pos, held[i].end_pos) :
                  i \in 1..Len(held)}

\* C20: after add_document accepted a document, every character of the stored
\* text between its first and its last non-whitespace character lies in at
\* least one stored chunk of that document.
C20_ChunksCoverDocument ==
    (Returned("add_document") /\ ret.value = "True")
        => LET text == documents[call.document_id].text
           IN  KeptPositions(text, 0, Len(text))
                   \subseteq CoveredPositions(call.document_id)

\* C21: in every reachable state a stored chunk's id is in the posting set of
\* a term exactly when the term is one of the tokens of the chunk's stored text.
C21_PostingsMatchTokens ==
    \A i \in 1..Len(chunks) :
        \A T \in (DOMAIN inverted_index) \cup TokenSet(engine, chunks[i].text) :
            (T \in DOMAIN inverted_index /\ chunks[i].id \in inverted_index[T])
                <=> T \in TokenSet(engine, chunks[i].text)

\* C22: in app.py a POST /clear request answers with success, and a
\* GET /status handled after it, with no upload in between, reports 0
\* documents and 0 chunks.
C22_ClearThenStatus ==
    /\ Returned("clear") => (ret.value = "200" /\ ret.json = [success |-> TRUE])
    /\ (Returned("status") /\ app.cleared)
          => (ret.json.documents = 0 /\ ret.json.chunks = 0)

\* C23: chunk_document (BetterSearchEngine, UltraSafeSearchEngine) emits each
\* window at most once and stops at the window that reaches the end of the
\* text: the chunk of the first window whose end offset is len(text) is the
\* last chunk returned, no two returned chunks have the same
\* (start_pos, end_pos), and a non-blank text no longer than chunk_size
\* yields exactly one chunk.
C23_EachWindowOnce ==
    (loop.variant \in {"better", "ultra"} /\ loop.st.status = "done")
        => LET cs == loop.st.chunks
           IN  /\ \A i \in 1..Len(cs) :
                     cs[i].end_pos = Len(loop.text) => i = Len(cs)
               /\ \A i, j \in 1..Len(cs) :
                     (cs[i].start_pos = cs[j].start_pos /\ cs[i].end_pos = cs[j].end_pos)
                        => i = j
               /\ (Strip(loop.text) # <<>> /\ Len(loop.text) <= loop.chunk_size)
                     => Len(cs) = 1

\* C24: every chunk descriptor chunk_document returns has
\* 0 <= start_pos < end_pos <= len(text), a non-empty text equal to
\* text[start_pos:end_pos] stripped, chunk_size equal to the length of that
\* text, and the chunk_index values of the returned sequence are 0, 1, 2, ...
C24_DescriptorsWellFormed ==
    (loop.variant \in {"better", "ultra"} /\ loop.st.status = "done")
        => \A i \in 1..Len(loop.st.chunks) :
              LET c == loop.st.chunks[i]
              IN  /\ 0 <= c.start_pos
                  /\ c.start_pos < c.end_pos
                  /\ c.end_pos <= Len(loop.text)
                  /\ c.text # <<>>
                  /\ c.text = Strip(Slice(loop.text, c.start_pos, c.end_pos))
                  /\ c.chunk_size = Len(c.text)
                  /\ c.chunk_index = i - 1

\* the token sequence of a query, in the order the words appear in it
QueryTokens(query) == preprocess_text("better", query)

\* some two tokens that follow each other in the query occur as "w1 w2" in
\* the lowercased chunk text
HasAdjacentPair(query, chunk_text) ==
    LET tokens == QueryTokens(query)
    IN  \E i \in 1..(Len(tokens) - 1) :
           Contains(Lower(chunk_text), TwoWords(tokens[i], tokens[i + 1]))

\* C25: in BetterSearchEngine partial_phrase_bonus is 0.5 exactly when some
\* two tokens that are consecutive in the query's token sequence occur as the
\* contiguous phrase "w1 w2" in the chunk's lowercased text, and 0 otherwise.
C25_PartialPhraseBonus ==
    trial.step = "scored"
        => /\ trial.s.partial_phrase_bonus =
                 (IF HasAdjacentPair(trial.query, trial.chunk) THEN Rat(1, 2) ELSE Zero)
           /\ trial.sc.partial_phrase_bonus =
                 (IF HasAdjacentPair(trial.query, trial.chunk2) THEN Rat(1, 2) ELSE Zero)
           /\ trial.sq.partial_phrase_bonus =
                 (IF HasAdjacentPair(trial.query2, trial.chunk) THEN Rat(1, 2) ELSE Zero)

\* the pairs of consecutive query tokens that both occur in the chunk's token
\* sequence at positions differing by at most ProximityWindow
NearPairs(query, chunk_text) ==
    LET tokens == QueryTokens(query)
        words  == preprocess_text("better", chunk_text)
    IN  {i \in 1..(Len(tokens) - 1) :
            \E p1, p2 \in 1..Len(words) :
               /\ words[p1] = tokens[i]
               /\ words[p2] = tokens[i + 1]
               /\ Abs(p1 - p2) <= ProximityWindow}

\* C26: in BetterSearchEngine proximity_bonus is 0.2 for each pair of
\* consecutive query tokens that both occur in the chunk at positions of the
\* chunk's token sequence differing by at most 3, and nothing for any other pair.
C26_ProximityBonus ==
    trial.step = "scored"
        => /\ trial.s.proximity_bonus =
                 Rat(2 * Cardinality(NearPairs(trial.query, trial.chunk)), 10)
           /\ trial.sc.proximity_bonus =
                 Rat(2 * Cardinality(NearPairs(trial.query, trial.chunk2)), 10)
           /\ trial.sq.proximity_bonus =
                 Rat(2 * Cardinality(NearPairs(trial.query2, trial.chunk)), 10)

\* the distinct query tokens that are tokens of the chunk
SharedTokens(query, chunk_text) ==
    TokenSet("better", query) \cap TokenSet("better", chunk_text)

\* C27: in BetterSearchEngine individual_word_bonus is 0.1 times the number of
\* distinct query tokens that are also tokens of the chunk; a query token that
\* only occurs inside a longer word of the chunk adds nothing.
C27_IndividualWordBonus ==
    trial.step = "scored"
        => /\ trial.s.individual_word_bonus =
                 Rat(Cardinality(SharedTokens(trial.query, trial.chunk)), 10)
           /\ trial.sc.individual_word_bonus =
                 Rat(Cardinality(SharedTokens(trial.query, trial.chunk2)), 10)
           /\ trial.sq.individual_word_bonus =
                 Rat(Cardinality(SharedTokens(trial.query2, trial.chunk)), 10)

\* C28: UltraSafeSearchEngine.search_similar scores every stored chunk: for a
\* query with a token and n_results >= 0 its result is the
\* min(n_results, 3, number of qualifying chunks) highest-scoring chunks among
\* all stored chunks with score >= threshold, wherever a chunk sits in
\* insertion order.
C28_EveryChunkScored ==
    (/\ engine = "ultra"
     /\ Returned("search_similar")
     /\ TokenSet("ultra", call.query) # {}
     /\ call.n_results >= 0)
        => /\ Len(ret.results) =
                 Min(Min(call.n_results, UltraMaxResults), Cardinality(Qualifying))
           /\ \A i \in 1..Len(chunks) : InResults(chunks[i]) => Qualifies(chunks[i])
           /\ \A i \in Qualifying :
                 InResults(chunks[i])
                    \/ \A k \in 1..Len(ret.results) :
                          RatGe(ret.results[k].similarity_score, ScoreOf(chunks[i]))

\* C30: in UltraSafeSearchEngine current_chunk_count equals len(chunks) in
\* every reachable state, also after a document id that is already stored
\* was added again.
C30_ChunkCountMatches ==
    engine = "ultra" => current_chunk_count = Len(chunks)

\* C29: a search of /ask that runs while /upload adds a document sees the
\* document entirely absent or entirely present: it never scores the
\* collection while the document is recorded with only some of its chunks
\* stored, and it never loses its results because self.chunks changed during
\* its scan.
C29_SearchSeesWholeDocuments ==
    ~app.ask.partial /\ ~app.ask.lost

====
